---- MODULE Spec2Model ----
(***************************************************************************)
(* Serial loggers of src/AntennaController.py: AntennaController (one      *)
(* channel plus a command path), SingleSerialLogger (one channel) and      *)
(* DualSerialLogger (two channels).  Each object has a control thread      *)
(* (start_controller / start_logging), one daemon reader thread per        *)
(* channel, a shared boolean `running`, one serial connection per channel  *)
(* and one file sink (a logging.FileHandler) per channel.                  *)
(*                                                                         *)
(* A reader thread's iteration is split where it touches state shared with *)
(* the control thread: the `while self.running` test, the `if ... is_open` *)
(* test, the call of readline() and its return.  What follows the return   *)
(* (decode, strip, count, log, print) touches only the reader's own        *)
(* counter and its channel's sink and is one step with the return.         *)
(***************************************************************************)
EXTENDS Integers, Sequences, FiniteSets, TLC

(* ---------------------------- bounds ----------------------------------- *)
\* lines the devices deliver in one run, all channels together
MaxReads == 3
\* Enter key presses (commands) of one run
MaxCmds == 2
\* start calls on one object (the entry points call start once)
MaxStarts == 2
\* direct calls of disconnect / send_command by a library client
MaxApiCalls == 2
\* lines the devices deliver to an object a library client drives
MaxApiReads == 2
\* lines the devices deliver to an object that is started again
MaxRestartReads == 1
\* lines delivered in the progress-cadence runs of the one-channel logger
MaxSamples == 250
\* lines delivered in the progress-cadence runs of the two-channel logger
MaxDualSamples == 101

(* --------------------------- constants --------------------------------- *)
\* `if sample_count % 100 == 0`
ProgressEvery == 100

Variants == {"antenna", "single", "dual"}
Chans == {1, 2}
Gens == 1..MaxStarts
Threads == Chans \X Gens

\* the channels an object of the given class has
ChansOf(v) == IF v = "dual" THEN {1, 2} ELSE {1}

(* ------------------------- bytes and text ------------------------------ *)
\* bytes are numbers, characters are one-character strings
Chr(b) == CASE b = 10 -> "\n" [] b = 32 -> " " [] b = 97 -> "a" [] b = 98 -> "b"
Ord(c) == CASE c = "\n" -> 10 [] c = " " -> 32 [] c = "a" -> 97 [] c = "b" -> 98

\* bytes.decode('utf-8') raises UnicodeDecodeError on a byte >= 128 that
\* starts no valid sequence (the only such bytes the devices send here)
Decodable(bs) == \A i \in 1..Len(bs) : bs[i] < 128

\* bytes.decode('utf-8') of ASCII bytes: their characters
decode(bs) == [i \in 1..Len(bs) |-> Chr(bs[i])]

\* str.encode('utf-8') on ASCII text
encode(s) == [i \in 1..Len(s) |-> Ord(s[i])]

IsSpace(c) == c \in {" ", "\n"}

RECURSIVE lstrip(_)
lstrip(s) ==
  IF s = <<>> THEN <<>>
  ELSE IF IsSpace(Head(s)) THEN lstrip(Tail(s)) ELSE s

RECURSIVE rstrip(_)
rstrip(s) ==
  IF s = <<>> THEN <<>>
  ELSE IF IsSpace(s[Len(s)]) THEN rstrip(SubSeq(s, 1, Len(s) - 1)) ELSE s

\* mutant: the line is not stripped
strip_omitted(s) == s

\* str.strip()
strip(s) == rstrip(lstrip(s))

\* what readline() can return when the device delivered bytes: a blank line,
\* two text lines (one with leading whitespace) and a line that is not UTF-8
DeviceLines ==
  { <<32, 10>>, <<97, 10>>, <<32, 98, 10>>, <<255, 10>> }

\* the only line of the progress-cadence runs
CadenceLines == { <<97, 10>> }

VARIABLES
  variant,     \* which class the object is
  running,     \* self.running
  cur,         \* cur[ch]: the Serial object self.serial<ch> refers to (0: None)
  conn,        \* conn[ch][g]: "none" | "open" | "closed", the object start g made
  sinkOpen,    \* sinkOpen[ch]: the FileHandler of channel ch holds its file open
  sink,        \* sink[ch]: the payloads of the records in the channel's file
  received,    \* received[ch]: the byte lines readline() has returned (history)
  printed,     \* printed[ch]: what the channel's reader printed
  main_log,    \* the messages of the 'main' logger
  sent,        \* the byte strings written to the device
  rpc,         \* rpc[t]: where reader thread t = <<ch, g>> is
  robj,        \* robj[t]: the Serial object t called readline() on
  rexit,       \* rexit[t]: why reader thread t left its loop
  count,       \* count[t]: sample_count of reader thread t
  mpc,         \* where the control thread is
  call,        \* the public method the control thread is in
  ret,         \* what the last start_* / disconnect_* call returned
  exitpath,    \* how the last start_* call ended
  starts,      \* start_* calls so far
  ncmds,       \* send_command calls so far
  cmdret,      \* what the last send_command returned
  closeCalls,  \* Serial.close() calls so far
  napi         \* direct disconnect / send_command calls so far

vars == << variant, running, cur, conn, sinkOpen, sink, received, printed,
           main_log, sent, rpc, robj, rexit, count, mpc, call, ret, exitpath,
           starts, ncmds, cmdret, closeCalls, napi >>

\* the state of the object self.serial<ch> refers to
SerialState(ch) == IF cur[ch] = 0 THEN "none" ELSE conn[ch][cur[ch]]

\* `self.serial_conn and self.serial_conn.is_open`
IsOpen(ch) == SerialState(ch) = "open"

TotalReads == Len(received[1]) + Len(received[2])


(* ------------------------- construction -------------------------------- *)
\* setup_logging: the FileHandler opens the channel's file at once and stays
\* attached to the channel's logger; the 'main' logger reports the file names
Antenna_setup_logging ==
  /\ sinkOpen = [ch \in Chans |-> ch = 1]
  /\ sink = [ch \in Chans |-> <<>>]
  /\ main_log = << "Antenna Controller initialized:", "Data log" >>

Single_setup_logging ==
  /\ sinkOpen = [ch \in Chans |-> ch = 1]
  /\ sink = [ch \in Chans |-> <<>>]
  /\ main_log = << "Logging initialized:", "Data log" >>

Dual_setup_logging ==
  /\ sinkOpen = [ch \in Chans |-> TRUE]
  /\ sink = [ch \in Chans |-> <<>>]
  /\ main_log = << "Logging initialized:", "Port 1 log", "Port 2 log" >>

\* __init__: no connection, not running, then setup_logging
Antenna_init ==
  /\ variant = "antenna"
  /\ cur = [ch \in Chans |-> 0]
  /\ running = FALSE
  /\ Antenna_setup_logging

Single_init ==
  /\ variant = "single"
  /\ cur = [ch \in Chans |-> 0]
  /\ running = FALSE
  /\ Single_setup_logging

Dual_init ==
  /\ variant = "dual"
  /\ cur = [ch \in Chans |-> 0]
  /\ running = FALSE
  /\ Dual_setup_logging

\* what no constructor sets: nothing read, printed or sent, no thread made,
\* the control thread outside every method
Fresh ==
  /\ conn = [ch \in Chans |-> [g \in Gens |-> "none"]]
  /\ received = [ch \in Chans |-> <<>>]
  /\ printed = [ch \in Chans |-> <<>>]
  /\ sent = <<>>
  /\ rpc = [t \in Threads |-> "unborn"]
  /\ robj = [t \in Threads |-> 0]
  /\ rexit = [t \in Threads |-> "none"]
  /\ count = [t \in Threads |-> 0]
  /\ mpc = "idle"
  /\ call = "none"
  /\ ret = "none"
  /\ exitpath = "none"
  /\ starts = 0
  /\ ncmds = 0
  /\ cmdret = "none"
  /\ closeCalls = 0
  /\ napi = 0

Init == Fresh /\ (Antenna_init \/ Single_init \/ Dual_init)

readerVars == << rpc, robj, rexit, count >>
ioVars == << sink, received, printed >>
connVars == << cur, conn, closeCalls >>
cmdVars == << sent, ncmds, cmdret >>
ctlVars == << mpc, call, ret, exitpath, starts, napi >>
fixedVars == << variant, sinkOpen >>

(* --------------------------- reader loop ------------------------------- *)
\* mutant: the record is put in front of the file's records
info_prepends(file, line) == << line >> \o file

\* logger.info(line) on the channel's data logger: one record at the end of
\* the channel's file (the asctime prefix of the record is not modelled)
info(file, line) == Append(file, line)

\* mutant: the test is made on the count before the increment
ProgressDue_before_increment(n) == (n - 1) % ProgressEvery = 0

\* `if sample_count % 100 == 0`
ProgressDue(n) == n % ProgressEvery = 0

\* mutant: `while True:`, the flag is never looked at
ReaderWhile_ignores_flag(t) ==
  /\ rpc[t] = "while"
  /\ rpc' = [rpc EXCEPT ![t] = "if"]
  /\ UNCHANGED << running, robj, rexit, count, main_log >>
  /\ UNCHANGED << ioVars, connVars, cmdVars, ctlVars, fixedVars >>

\* `while self.running:` of a reader thread
ReaderWhile(t) ==
  /\ rpc[t] = "while"
  /\ IF running
     THEN /\ rpc' = [rpc EXCEPT ![t] = "if"]
          /\ UNCHANGED rexit
     ELSE /\ rpc' = [rpc EXCEPT ![t] = "exited"]
          /\ rexit' = [rexit EXCEPT ![t] = "stopped"]
  /\ UNCHANGED << running, robj, count, main_log >>
  /\ UNCHANGED << ioVars, connVars, cmdVars, ctlVars, fixedVars >>

\* `if self.serial and self.serial.is_open:`; when false the loop goes round
ReaderIf(t) ==
  /\ rpc[t] = "if"
  /\ rpc' = [rpc EXCEPT ![t] = IF IsOpen(t[1]) THEN "call" ELSE "while"]
  /\ UNCHANGED << running, robj, rexit, count, main_log >>
  /\ UNCHANGED << ioVars, connVars, cmdVars, ctlVars, fixedVars >>

\* `self.serial.readline()` is entered on the object the attribute names now
ReaderCall(t) ==
  /\ rpc[t] = "call"
  /\ robj' = [robj EXCEPT ![t] = cur[t[1]]]
  /\ rpc' = [rpc EXCEPT ![t] = "readline"]
  /\ UNCHANGED << running, rexit, count, main_log >>
  /\ UNCHANGED << ioVars, connVars, cmdVars, ctlVars, fixedVars >>

\* mutant: read_port2 copied from read_port1 with `self.logger1` left in
data_logger_shared(t) == 1

\* the logger a reader thread records with: `self.logger1` in read_port1,
\* `self.logger2` in read_port2, `self.data_logger` in the one-port classes
data_logger(t) == t[1]

\* mutant: the handler breaks without reporting
ReaderBreak_silent(t, why, msg) ==
  /\ rpc' = [rpc EXCEPT ![t] = "exited"]
  /\ rexit' = [rexit EXCEPT ![t] = why]
  /\ UNCHANGED << main_log, running, count, sink, printed >>

\* mutant: the handler reports and goes round the loop again (no break)
ReaderBreak_continues(t, why, msg) ==
  /\ main_log' = Append(main_log, msg)
  /\ rpc' = [rpc EXCEPT ![t] = "while"]
  /\ rexit' = [rexit EXCEPT ![t] = why]
  /\ UNCHANGED << running, count, sink, printed >>

\* mutant: the handler also clears the shared flag
ReaderBreak_stops_all(t, why, msg) ==
  /\ main_log' = Append(main_log, msg)
  /\ rpc' = [rpc EXCEPT ![t] = "exited"]
  /\ rexit' = [rexit EXCEPT ![t] = why]
  /\ running' = FALSE
  /\ UNCHANGED << count, sink, printed >>

\* `except serial.SerialException` / `except Exception`: report and break
ReaderBreak(t, why, msg) ==
  /\ main_log' = Append(main_log, msg)
  /\ rpc' = [rpc EXCEPT ![t] = "exited"]
  /\ rexit' = [rexit EXCEPT ![t] = why]
  /\ UNCHANGED << running, count, sink, printed >>

\* mutant: after a line the thread reads again at once, without the test of
\* the flag, until a read comes back empty
ReaderBody_drains(t, bs) ==
  LET ch == t[1]
      line == strip(decode(bs))
      n == count[t] + 1
  IN IF ~Decodable(bs)
     THEN ReaderBreak(t, "Exception", "Unexpected error")
     ELSE /\ rpc' = [rpc EXCEPT ![t] = IF line # <<>> THEN "call" ELSE "while"]
          /\ UNCHANGED << running, rexit, main_log >>
          /\ IF line # <<>>
             THEN /\ sink' = [sink EXCEPT ![data_logger(t)] = info(@, line)]
                  /\ IF variant = "antenna"
                     THEN /\ UNCHANGED count
                          /\ printed' = [printed EXCEPT
                                           ![ch] = Append(@, << "Received", line >>)]
                     ELSE /\ count' = [count EXCEPT ![t] = n]
                          /\ printed' = [printed EXCEPT ![ch] =
                               IF ProgressDue(n)
                               THEN Append(@, << "samples logged", n >>)
                               ELSE @]
             ELSE UNCHANGED << sink, count, printed >>

\* the loop body after readline() returned the bytes bs (b'' on a timeout):
\* decode, strip, and for a non-empty line count, log and print
ReaderBody(t, bs) ==
  LET ch == t[1]
      line == strip(decode(bs))
      n == count[t] + 1
  IN IF ~Decodable(bs)
     THEN ReaderBreak(t, "Exception", "Unexpected error")
     ELSE /\ rpc' = [rpc EXCEPT ![t] = "while"]
          /\ UNCHANGED << running, rexit, main_log >>
          /\ IF line # <<>>
             THEN /\ sink' = [sink EXCEPT ![data_logger(t)] = info(@, line)]
                  /\ IF variant = "antenna"
                     THEN /\ UNCHANGED count
                          /\ printed' = [printed EXCEPT
                                           ![ch] = Append(@, << "Received", line >>)]
                     ELSE /\ count' = [count EXCEPT ![t] = n]
                          /\ printed' = [printed EXCEPT ![ch] =
                               IF ProgressDue(n)
                               THEN Append(@, << "samples logged", n >>)
                               ELSE @]
             ELSE UNCHANGED << sink, count, printed >>

\* how a readline() call can end: with a line the device delivered, with
\* b'' after the timeout, or by raising.  On a closed object it raises
\* SerialException (PortNotOpenError, a failed select) or another exception
\* (os.read on a cleared descriptor), or comes back empty.
ReadOutcomes(t, lines, budget) ==
  LET open == conn[t[1]][robj[t]] = "open"
  IN { << "line", bs >> : bs \in IF open /\ TotalReads < budget THEN lines ELSE {} }
     \cup { << "timeout", <<>> >>, << "SerialException", <<>> >> }
     \cup IF open THEN {} ELSE { << "Exception", <<>> >> }

\* readline() returns or raises, and the rest of the iteration runs
ReaderReturn(t, lines, budget) ==
  /\ rpc[t] = "readline"
  /\ \E o \in ReadOutcomes(t, lines, budget) :
       CASE o[1] = "line" ->
              /\ received' = [received EXCEPT ![t[1]] = Append(@, o[2])]
              /\ ReaderBody(t, o[2])
         [] o[1] = "timeout" ->
              /\ UNCHANGED received
              /\ ReaderBody(t, o[2])
         [] o[1] = "SerialException" ->
              /\ UNCHANGED received
              /\ ReaderBreak(t, "SerialException", "Serial read error")
         [] o[1] = "Exception" ->
              /\ UNCHANGED received
              /\ ReaderBreak(t, "Exception", "Unexpected error")
  /\ UNCHANGED << robj, connVars, cmdVars, ctlVars, fixedVars >>

ReaderLoop(t, lines, budget) ==
  \/ ReaderWhile(t)
  \/ ReaderIf(t)
  \/ ReaderCall(t)
  \/ ReaderReturn(t, lines, budget)

\* the reader threads of the three classes; g is the start call that made it
Antenna_read_serial_data(g, lines, budget) ==
  variant = "antenna" /\ ReaderLoop(<< 1, g >>, lines, budget)

Single_read_serial_data(g, lines, budget) ==
  variant = "single" /\ ReaderLoop(<< 1, g >>, lines, budget)

Dual_read_port1(g, lines, budget) ==
  variant = "dual" /\ ReaderLoop(<< 1, g >>, lines, budget)

Dual_read_port2(g, lines, budget) ==
  variant = "dual" /\ ReaderLoop(<< 2, g >>, lines, budget)

(* -------------------------- control thread ----------------------------- *)
\* serial.Serial(port, baudrate, timeout) succeeded: a new open object, made
\* by start call `starts`, is assigned to self.serial<ch>
Opened(c, ch) == [c EXCEPT ![ch] = [@ EXCEPT ![starts] = "open"]]

\* Serial.close() on the object self.serial<ch> refers to
Closed(c, ch) == [c EXCEPT ![ch] = [@ EXCEPT ![cur[ch]] = "closed"]]

\* a start_* / disconnect_* call returns to its caller
Return(value, path) ==
  /\ mpc' = "idle"
  /\ call' = "none"
  /\ ret' = value
  /\ exitpath' = path

\* connect_port of the one-channel classes, and what start does with its
\* result: `if not self.connect_port(): return False`
connect_port ==
  /\ mpc = "connect1"
  /\ variant \in {"antenna", "single"}
  /\ \E ok \in BOOLEAN :
       IF ok
       THEN /\ cur' = [cur EXCEPT ![1] = starts]
            /\ conn' = Opened(conn, 1)
            /\ main_log' = Append(main_log, "Connected to")
            /\ mpc' = "set_running"
            /\ UNCHANGED << call, ret, exitpath >>
       ELSE /\ main_log' = Append(main_log, "Failed to connect to")
            /\ Return("False", "connect_failed")
            /\ UNCHANGED << cur, conn >>
  /\ UNCHANGED << running, closeCalls, starts, napi >>
  /\ UNCHANGED << ioVars, readerVars, cmdVars, fixedVars >>

Antenna_connect_port == variant = "antenna" /\ connect_port

Single_connect_port == variant = "single" /\ connect_port

\* connect_ports, first `try`: port 1
Dual_connect_ports_1 ==
  /\ mpc = "connect1"
  /\ variant = "dual"
  /\ \E ok \in BOOLEAN :
       IF ok
       THEN /\ cur' = [cur EXCEPT ![1] = starts]
            /\ conn' = Opened(conn, 1)
            /\ main_log' = Append(main_log, "Connected to Port 1")
            /\ mpc' = "connect2"
            /\ UNCHANGED << call, ret, exitpath >>
       ELSE /\ main_log' = Append(main_log, "Failed to connect to Port 1")
            /\ Return("False", "connect_failed")
            /\ UNCHANGED << cur, conn >>
  /\ UNCHANGED << running, closeCalls, starts, napi >>
  /\ UNCHANGED << ioVars, readerVars, cmdVars, fixedVars >>

\* mutant: port 1 is left as it is
Rollback_omitted(c) == c

\* the handler of a failed port 2: `if self.serial1: self.serial1.close()`
Rollback(c) == IF cur[1] # 0 THEN Closed(c, 1) ELSE c

\* connect_ports, second `try`: port 2, closing port 1 when it fails
Dual_connect_ports_2 ==
  /\ mpc = "connect2"
  /\ variant = "dual"
  /\ \E ok \in BOOLEAN :
       IF ok
       THEN /\ cur' = [cur EXCEPT ![2] = starts]
            /\ conn' = Opened(conn, 2)
            /\ main_log' = Append(main_log, "Connected to Port 2")
            /\ mpc' = "set_running"
            /\ UNCHANGED << call, ret, exitpath, closeCalls >>
       ELSE /\ main_log' = Append(main_log, "Failed to connect to Port 2")
            /\ conn' = Rollback(conn)
            /\ closeCalls' = IF cur[1] # 0 THEN closeCalls + 1 ELSE closeCalls
            /\ Return("False", "connect_failed")
            /\ UNCHANGED cur
  /\ UNCHANGED << running, starts, napi >>
  /\ UNCHANGED << ioVars, readerVars, cmdVars, fixedVars >>

Dual_connect_ports == Dual_connect_ports_1 \/ Dual_connect_ports_2

\* mutant: the threads are started without the flag having been set
SetRunning_omitted ==
  /\ mpc = "set_running"
  /\ mpc' = "spawn1"
  /\ UNCHANGED << running, main_log, call, ret, exitpath, starts, napi >>
  /\ UNCHANGED << ioVars, readerVars, connVars, cmdVars, fixedVars >>

\* `self.running = True`
SetRunning ==
  /\ mpc = "set_running"
  /\ running' = TRUE
  /\ mpc' = "spawn1"
  /\ UNCHANGED << main_log, call, ret, exitpath, starts, napi >>
  /\ UNCHANGED << ioVars, readerVars, connVars, cmdVars, fixedVars >>

\* Thread(target=...).start() for channel ch; after the last one the control
\* thread enters its `try` and reports the start
Spawn(ch) ==
  /\ mpc = IF ch = 1 THEN "spawn1" ELSE "spawn2"
  /\ rpc' = [rpc EXCEPT ![<< ch, starts >>] = "while"]
  /\ IF ch = 1 /\ variant = "dual"
     THEN /\ mpc' = "spawn2"
          /\ UNCHANGED main_log
     ELSE /\ mpc' = "loop"
          /\ main_log' = Append(main_log, "started")
  /\ UNCHANGED << running, robj, rexit, count, call, ret, exitpath, starts, napi >>
  /\ UNCHANGED << ioVars, connVars, cmdVars, fixedVars >>

\* mutant: the command is reported through the data logger
send_command_logs_data(command) ==
  /\ ncmds' = ncmds + 1
  /\ sink' = [sink EXCEPT ![1] = Append(@, command)]
  /\ IF IsOpen(1)
     THEN \E ok \in BOOLEAN :
            IF ok
            THEN /\ sent' = Append(sent, encode(command))
                 /\ main_log' = Append(main_log, "Sent command")
                 /\ cmdret' = "True"
            ELSE /\ main_log' = Append(main_log, "Failed to send command")
                 /\ cmdret' = "False"
                 /\ UNCHANGED sent
     ELSE /\ main_log' = Append(main_log, "Serial port not connected")
          /\ cmdret' = "False"
          /\ UNCHANGED sent
  /\ UNCHANGED << running, received, printed, readerVars, connVars, fixedVars >>

\* mutant: a failed send clears the shared flag
send_command_fatal(command) ==
  /\ ncmds' = ncmds + 1
  /\ IF IsOpen(1)
     THEN \E ok \in BOOLEAN :
            IF ok
            THEN /\ sent' = Append(sent, encode(command))
                 /\ main_log' = Append(main_log, "Sent command")
                 /\ cmdret' = "True"
                 /\ UNCHANGED running
            ELSE /\ main_log' = Append(main_log, "Failed to send command")
                 /\ cmdret' = "False"
                 /\ running' = FALSE
                 /\ UNCHANGED sent
     ELSE /\ main_log' = Append(main_log, "Serial port not connected")
          /\ cmdret' = "False"
          /\ running' = FALSE
          /\ UNCHANGED sent
  /\ UNCHANGED << ioVars, readerVars, connVars, fixedVars >>

\* send_command(command): write the encoded command when the port is open
send_command(command) ==
  /\ ncmds' = ncmds + 1
  /\ IF IsOpen(1)
     THEN \E ok \in BOOLEAN :
            IF ok
            THEN /\ sent' = Append(sent, encode(command))
                 /\ main_log' = Append(main_log, "Sent command")
                 /\ cmdret' = "True"
            ELSE /\ main_log' = Append(main_log, "Failed to send command")
                 /\ cmdret' = "False"
                 /\ UNCHANGED sent
     ELSE /\ main_log' = Append(main_log, "Serial port not connected")
          /\ cmdret' = "False"
          /\ UNCHANGED sent
  /\ UNCHANGED << running, ioVars, readerVars, connVars, fixedVars >>

\* `while self.running: time.sleep(0.5)` of the two loggers
LoopSleep ==
  /\ mpc = "loop"
  /\ variant \in {"single", "dual"}
  /\ IF running
     THEN UNCHANGED << mpc, call, ret, exitpath >>
     ELSE Return("True", "loop_end")
  /\ UNCHANGED << running, main_log, starts, napi >>
  /\ UNCHANGED << ioVars, readerVars, connVars, cmdVars, fixedVars >>

\* `while self.running: input(); if self.send_command('a'): print(...)` of the
\* antenna controller; EOFError on input() breaks out of the loop
LoopInput ==
  /\ mpc = "loop"
  /\ variant = "antenna"
  /\ IF ~running
     THEN /\ Return("True", "loop_end")
          /\ UNCHANGED << main_log, running, cmdVars, ioVars, readerVars,
                          connVars, fixedVars >>
     ELSE \E key \in {"Enter", "EOF"} :
            IF key = "Enter"
            THEN /\ ncmds < MaxCmds
                 /\ send_command(<< "a" >>)
                 /\ UNCHANGED << mpc, call, ret, exitpath >>
            ELSE /\ Return("True", "eof")
                 /\ UNCHANGED << main_log, running, cmdVars, ioVars, readerVars,
                                 connVars, fixedVars >>
  /\ UNCHANGED << starts, napi >>

\* `except KeyboardInterrupt:` up to `self.running = False`
Interrupt ==
  /\ mpc = "loop"
  /\ main_log' = Append(main_log, "Stopping")
  /\ running' = FALSE
  /\ mpc' = "disconnect1"
  /\ UNCHANGED << call, ret, exitpath, starts, napi >>
  /\ UNCHANGED << ioVars, readerVars, connVars, cmdVars, fixedVars >>

\* mutant: close and report without the is_open test
Disconnect_unchecked(ch) ==
  /\ conn' = IF cur[ch] # 0 THEN Closed(conn, ch) ELSE conn
  /\ closeCalls' = closeCalls + 1
  /\ main_log' = Append(main_log, "disconnected")

\* one `if self.serial and self.serial.is_open: close(); info(...)` of
\* disconnect_port / disconnect_ports
Disconnect(ch) ==
  IF IsOpen(ch)
  THEN /\ conn' = Closed(conn, ch)
       /\ closeCalls' = closeCalls + 1
       /\ main_log' = Append(main_log, "disconnected")
  ELSE UNCHANGED << conn, closeCalls, main_log >>

\* the call returns: start_* with True after the interrupt handler, a direct
\* call of disconnect_* with None
DisconnectReturn ==
  IF call = "start"
  THEN Return("True", "interrupt")
  ELSE Return("None", exitpath)

\* disconnect_port of the one-channel classes
disconnect_port ==
  /\ mpc = "disconnect1"
  /\ variant \in {"antenna", "single"}
  /\ Disconnect(1)
  /\ DisconnectReturn
  /\ UNCHANGED << running, cur, starts, napi >>
  /\ UNCHANGED << ioVars, readerVars, cmdVars, fixedVars >>

Antenna_disconnect_port == variant = "antenna" /\ disconnect_port

Single_disconnect_port == variant = "single" /\ disconnect_port

\* disconnect_ports: port 1, then port 2
Dual_disconnect_ports ==
  /\ variant = "dual"
  /\ \/ /\ mpc = "disconnect1"
        /\ Disconnect(1)
        /\ mpc' = "disconnect2"
        /\ UNCHANGED << call, ret, exitpath >>
     \/ /\ mpc = "disconnect2"
        /\ Disconnect(2)
        /\ DisconnectReturn
  /\ UNCHANGED << running, cur, starts, napi >>
  /\ UNCHANGED << ioVars, readerVars, cmdVars, fixedVars >>

\* the entry point calls start_controller / start_logging on the new object
CallStart ==
  /\ mpc = "idle"
  /\ starts = 0
  /\ starts' = 1
  /\ mpc' = "connect1"
  /\ call' = "start"
  /\ ret' = "pending"
  /\ exitpath' = "none"
  /\ UNCHANGED << running, main_log, napi >>
  /\ UNCHANGED << ioVars, readerVars, connVars, cmdVars, fixedVars >>

\* start_controller: connect, set the flag, start the reader, serve the
\* keyboard, stop on KeyboardInterrupt
Antenna_start_controller ==
  /\ variant = "antenna"
  /\ \/ Antenna_connect_port
     \/ SetRunning
     \/ Spawn(1)
     \/ LoopInput
     \/ Interrupt
     \/ Antenna_disconnect_port

\* start_logging of SingleSerialLogger
Single_start_logging ==
  /\ variant = "single"
  /\ \/ Single_connect_port
     \/ SetRunning
     \/ Spawn(1)
     \/ LoopSleep
     \/ Interrupt
     \/ Single_disconnect_port

\* start_logging of DualSerialLogger
Dual_start_logging ==
  /\ variant = "dual"
  /\ \/ Dual_connect_ports
     \/ SetRunning
     \/ Spawn(1)
     \/ Spawn(2)
     \/ LoopSleep
     \/ Interrupt
     \/ Dual_disconnect_ports

(* ------------------- the program as its entry points run it ------------- *)
Next ==
  \/ CallStart
  \/ Antenna_start_controller
  \/ Single_start_logging
  \/ Dual_start_logging
  \/ \E g \in Gens : Antenna_read_serial_data(g, DeviceLines, MaxReads)
  \/ \E g \in Gens : Single_read_serial_data(g, DeviceLines, MaxReads)
  \/ \E g \in Gens : Dual_read_port1(g, DeviceLines, MaxReads)
  \/ \E g \in Gens : Dual_read_port2(g, DeviceLines, MaxReads)

Spec == Init /\ [][Next]_vars

\* The same program under a scheduler that lets every started reader thread
\* run: a thread that can take a step is not starved for ever, and a
\* readline() call comes back when its timeout (timeout=1) has passed.
SpecLive ==
  /\ Init
  /\ [][Next]_vars
  /\ \A t \in Threads : WF_vars(ReaderLoop(t, DeviceLines, MaxReads))

(* ------------- the classes as a library: any order of calls ------------- *)
\* a client calls start_controller / start_logging again on the same object
ApiRestart ==
  /\ mpc = "idle"
  /\ starts >= 1
  /\ starts < MaxStarts
  /\ starts' = starts + 1
  /\ mpc' = "connect1"
  /\ call' = "start"
  /\ ret' = "pending"
  /\ exitpath' = "none"
  /\ UNCHANGED << running, main_log, napi >>
  /\ UNCHANGED << ioVars, readerVars, connVars, cmdVars, fixedVars >>

\* a client calls disconnect_port / disconnect_ports itself
ApiDisconnect ==
  /\ mpc = "idle"
  /\ napi < MaxApiCalls
  /\ napi' = napi + 1
  /\ mpc' = "disconnect1"
  /\ call' = "disconnect"
  /\ UNCHANGED << running, main_log, ret, exitpath, starts >>
  /\ UNCHANGED << ioVars, readerVars, connVars, cmdVars, fixedVars >>

\* a client calls send_command itself (AntennaController only has it)
ApiSendCommand ==
  /\ mpc = "idle"
  /\ variant = "antenna"
  /\ napi < MaxApiCalls
  /\ ncmds < MaxCmds
  /\ napi' = napi + 1
  /\ send_command(<< "a" >>)
  /\ UNCHANGED << mpc, call, ret, exitpath, starts >>

NextApi ==
  \/ CallStart
  \/ Antenna_start_controller
  \/ Single_start_logging
  \/ Dual_start_logging
  \/ \E g \in Gens : Antenna_read_serial_data(g, DeviceLines, MaxApiReads)
  \/ \E g \in Gens : Single_read_serial_data(g, DeviceLines, MaxApiReads)
  \/ \E g \in Gens : Dual_read_port1(g, DeviceLines, MaxApiReads)
  \/ \E g \in Gens : Dual_read_port2(g, DeviceLines, MaxApiReads)
  \/ ApiDisconnect
  \/ ApiSendCommand

SpecApi == Init /\ [][NextApi]_vars

\* the same with start called again on the object
NextRestart ==
  \/ CallStart
  \/ ApiRestart
  \/ Antenna_start_controller
  \/ Single_start_logging
  \/ Dual_start_logging
  \/ \E g \in Gens : Antenna_read_serial_data(g, CadenceLines, MaxRestartReads)
  \/ \E g \in Gens : Single_read_serial_data(g, CadenceLines, MaxRestartReads)
  \/ \E g \in Gens : Dual_read_port1(g, CadenceLines, MaxRestartReads)
  \/ \E g \in Gens : Dual_read_port2(g, CadenceLines, MaxRestartReads)

SpecRestart == Init /\ [][NextRestart]_vars

(* -------- long runs of one logger, every line the same text line -------- *)
InitCadence == Fresh /\ (Single_init \/ Dual_init)

\* start_logging of DualSerialLogger while no KeyboardInterrupt arrives
Dual_start_logging_running ==
  /\ variant = "dual"
  /\ \/ Dual_connect_ports
     \/ SetRunning
     \/ Spawn(1)
     \/ Spawn(2)
     \/ LoopSleep

NextCadence ==
  \/ CallStart
  \/ Single_start_logging
  \/ Dual_start_logging_running
  \/ \E g \in Gens : Single_read_serial_data(g, CadenceLines, MaxSamples)
  \/ \E g \in Gens : Dual_read_port1(g, CadenceLines, MaxDualSamples)
  \/ \E g \in Gens : Dual_read_port2(g, CadenceLines, MaxDualSamples)

SpecCadence == InitCadence /\ [][NextCadence]_vars

(* ============================ properties ================================ *)
\* the reader thread left its loop through one of its exception handlers
Failed(t) == rexit[t] \in {"SerialException", "Exception"}

\* the other channel of the two-channel logger
Sibling(ch) == 3 - ch

\* whitespace bytes, and the text of a byte line without the whitespace at
\* its two ends (defined on positions, not by the loop's strip)
IsWs(b) == b \in {10, 32}

Trimmed(bs) ==
  LET keep == { i \in 1..Len(bs) : ~IsWs(bs[i]) }
  IN IF keep = {}
     THEN <<>>
     ELSE LET lo == CHOOSE i \in keep : \A j \in keep : i <= j
              hi == CHOOSE i \in keep : \A j \in keep : j <= i
          IN [i \in 1..(hi - lo + 1) |-> Chr(bs[lo + i - 1])]

IsUtf8(bs) == \A i \in 1..Len(bs) : bs[i] \in {10, 32, 97, 98}

\* the payloads a channel's file must hold after the byte lines ls came in
RECURSIVE ExpectedSink(_)
ExpectedSink(ls) ==
  IF ls = <<>>
  THEN <<>>
  ELSE LET l == ls[Len(ls)]
           before == ExpectedSink(SubSeq(ls, 1, Len(ls) - 1))
       IN IF IsUtf8(l) /\ Trimmed(l) # <<>> THEN Append(before, Trimmed(l)) ELSE before

\* a step in which channel ch's readline() returned the byte line l
Delivered(ch, l) == received'[ch] = Append(received[ch], l)

(* ------------------------------- C1 ------------------------------------ *)
\* C1: in the two-channel logger a reader that leaves its loop through an
\* exception handler changes neither the run flag, nor any connection, nor
\* the sibling channel's reader, counter or file; a reader leaves its loop as
\* "stopped" only when the run flag is False; and with a failed sibling a
\* reader still appends one record and adds one to its count for every
\* non-empty line it receives.
C1_Isolation ==
  [][ variant = "dual" =>
        \A t \in Threads :
          LET ch == t[1]
              o == Sibling(t[1])
          IN /\ (~Failed(t) /\ Failed(t)') =>
                   /\ running' = running
                   /\ cur' = cur /\ conn' = conn
                   /\ sink'[o] = sink[o]
                   /\ \A u \in Threads :
                        u[1] = o => /\ rpc'[u] = rpc[u]
                                    /\ rexit'[u] = rexit[u]
                                    /\ count'[u] = count[u]
             /\ (rexit[t] = "none" /\ rexit'[t] = "stopped") => ~running
             /\ \A l \in DeviceLines :
                  ( /\ \E u \in Threads : u[1] = o /\ Failed(u)
                    /\ rpc[t] = "readline" /\ rpc'[t] # "readline"
                    /\ Delivered(ch, l)
                    /\ IsUtf8(l) /\ Trimmed(l) # <<>> ) =>
                      /\ sink'[ch] = Append(sink[ch], Trimmed(l))
                      /\ count'[t] = count[t] + 1
                      /\ rpc'[t] = "while"
    ]_vars

\* channel 1's reader has failed; channel 2's reader is in its loop with the
\* flag still set and has logged
C1_Witness ==
  /\ variant = "dual"
  /\ Failed(<< 1, 1 >>)
  /\ running
  /\ rpc[<< 2, 1 >>] = "while"
  /\ count[<< 2, 1 >>] >= 1
  /\ IsOpen(2)

(* ------------------------------- C2 ------------------------------------ *)
\* C2: when a start call ended because a channel failed to open, it returned
\* False, it spawned no reader, the run flag is False and no sink file is open.
C2_AllOrNothingStart ==
  exitpath = "connect_failed" =>
    /\ ret = "False"
    /\ \A ch \in Chans : rpc[<< ch, starts >>] = "unborn"
    /\ ~running
    /\ \A ch \in Chans : ~sinkOpen[ch]

(* ------------------------------- C3 ------------------------------------ *)
\* C3: in the two-channel logger, after a start call that ended because a
\* channel failed to open, no connection object is open.
C3_Rollback ==
  (variant = "dual" /\ exitpath = "connect_failed") =>
    /\ \A ch \in Chans : ~IsOpen(ch)
    /\ \A ch \in Chans : \A g \in Gens : conn[ch][g] # "open"

\* channel 1 was opened, channel 2 failed, start has returned
C3_Witness ==
  /\ variant = "dual"
  /\ exitpath = "connect_failed"
  /\ mpc = "idle"
  /\ cur[1] = 1
  /\ cur[2] = 0
  /\ conn[1][1] = "closed"

(* ------------------------------- C4 ------------------------------------ *)
\* C4: when a start call has returned through the interrupt handler, no
\* reader thread is in its loop, no connection is open and no sink file is
\* open.
C4_StopReleasesAll ==
  (mpc = "idle" /\ exitpath = "interrupt") =>
    /\ \A t \in Threads : rpc[t] \in {"unborn", "exited"}
    /\ \A ch \in Chans : ~IsOpen(ch)
    /\ \A ch \in Chans : ~sinkOpen[ch]

(* ------------------------------- C5 ------------------------------------ *)
\* C5: in every state each channel's file holds, in order of receipt and
\* once each, the trimmed text of the non-empty lines its readline() calls
\* have returned.
C5_OrderPreserved ==
  \A ch \in Chans : sink[ch] = ExpectedSink(received[ch])

\* a channel received three lines, one of them blank, and its file holds the
\* two different payloads
C5_Witness ==
  \E ch \in Chans :
    /\ Len(received[ch]) = 3
    /\ Len(sink[ch]) = 2
    /\ sink[ch][1] # sink[ch][2]

(* ------------------------------- C6 ------------------------------------ *)
\* C6: a readline() that times out or returns a line of whitespace only
\* leaves the sink, the counter and the printed output as they were and the
\* reader goes round its loop; and while a channel has received only such
\* lines its file is empty, its counters are 0 and none of its readers has
\* left the loop through the handler of unexpected errors with the
\* connection open.
C6_EmptyLineFiltering ==
  /\ [][ \A t \in Threads :
           ( /\ rpc[t] = "readline" /\ rpc'[t] # "readline"
             /\ \/ \E l \in DeviceLines :
                     Delivered(t[1], l) /\ IsUtf8(l) /\ Trimmed(l) = <<>>
                \/ received' = received /\ rexit'[t] = "none" ) =>
               /\ sink' = sink
               /\ count' = count
               /\ printed' = printed
               /\ rpc'[t] = "while"
               /\ rexit'[t] = "none"
       ]_vars
  /\ [] \A ch \in Chans :
          (\A i \in 1..Len(received[ch]) :
             IsUtf8(received[ch][i]) /\ Trimmed(received[ch][i]) = <<>>) =>
            /\ sink[ch] = <<>>
            /\ \A t \in Threads : t[1] = ch => count[t] = 0
            /\ \A t \in Threads :
                 (t[1] = ch /\ rexit[t] = "Exception") => conn[ch][robj[t]] = "closed"

\* a one-channel object received three blank lines; its reader is in the loop
C6_Witness ==
  /\ variant \in {"antenna", "single"}
  /\ Len(received[1]) = 3
  /\ \A i \in 1..3 : Trimmed(received[1][i]) = <<>>
  /\ sink[1] = <<>>
  /\ running
  /\ rpc[<< 1, 1 >>] = "while"

(* ------------------------------- C7 ------------------------------------ *)
\* the progress messages after n logged lines: one for each multiple of 100
ProgressUpTo(n) ==
  [i \in 1..(n \div 100) |-> << "samples logged", 100 * i >>]

\* C7: in the two loggers with a counter, each channel's reader has printed
\* exactly one progress message for every positive multiple of 100 its own
\* count has reached, in order, each carrying that multiple; the count is the
\* number of records in the channel's file.
C7_ProgressCadence ==
  \A ch \in Chans :
    /\ count[<< ch, 1 >>] = Len(sink[ch])
    /\ printed[ch] = ProgressUpTo(count[<< ch, 1 >>])

\* 250 lines logged on the one channel: messages at 100 and 200
C7_Witness ==
  /\ variant = "single"
  /\ count[<< 1, 1 >>] = 250
  /\ printed[1] = << << "samples logged", 100 >>, << "samples logged", 200 >> >>

(* ------------------------------- C8 ------------------------------------ *)
\* the channel a disconnect step of the control thread works on
DisconnectChan == IF mpc = "disconnect2" THEN 2 ELSE 1

\* C8: a disconnect step on a channel that is not open (closed before, or
\* never opened) changes no connection, makes no close() call, logs nothing
\* and leaves flag, files and readers alone; and after a disconnect call that
\* follows an interrupt stop the flag is False and every connection closed,
\* as after the stop.
C8_IdempotentClose ==
  /\ [][ ( /\ mpc \in {"disconnect1", "disconnect2"}
           /\ mpc' # mpc
           /\ ~IsOpen(DisconnectChan) ) =>
             /\ conn' = conn /\ cur' = cur
             /\ closeCalls' = closeCalls
             /\ main_log' = main_log
             /\ running' = running
             /\ sink' = sink /\ sinkOpen' = sinkOpen
             /\ rpc' = rpc
       ]_vars
  /\ [] ( (mpc = "idle" /\ exitpath = "interrupt") =>
            /\ ~running
            /\ \A ch \in Chans : ~IsOpen(ch) )

\* a disconnect call made after an interrupt stop has returned
C8_Witness ==
  /\ mpc = "idle"
  /\ exitpath = "interrupt"
  /\ ret = "None"
  /\ closeCalls = Cardinality(ChansOf(variant))

(* ------------------------------- C9 ------------------------------------ *)
\* C9: a send_command call changes no sink file, and a sink file changes
\* only in a step in which that channel's readline() returned a line and in
\* which no command was sent.
C9_CommandIsolation ==
  [][ /\ (ncmds' # ncmds) => (sink' = sink /\ received' = received)
      /\ \A ch \in Chans :
           (sink'[ch] # sink[ch]) =>
             /\ Len(received'[ch]) = Len(received[ch]) + 1
             /\ ncmds' = ncmds
             /\ sent' = sent
    ]_vars

\* commands were sent, the last one failed, and the file holds a record
C9_Witness ==
  /\ ncmds = 2
  /\ sent # <<>>
  /\ cmdret = "False"
  /\ sink[1] # <<>>

(* ------------------------------- C10 ----------------------------------- *)
\* C10: send_command on a channel that is not open returns False; and a
\* send_command that returns False changes neither the run flag, nor a
\* connection, nor a reader thread, writes nothing to the device and leaves
\* the control thread where it was (in its input loop when called from it).
C10_CommandFailureNotFatal ==
  [][ (ncmds' = ncmds + 1) =>
        /\ ~IsOpen(1) => cmdret' = "False"
        /\ (cmdret' = "False") =>
             /\ running' = running
             /\ cur' = cur /\ conn' = conn /\ closeCalls' = closeCalls
             /\ rpc' = rpc /\ rexit' = rexit
             /\ sent' = sent
             /\ mpc' = mpc
    ]_vars

\* a write was rejected inside the input loop and, after the stop, a
\* command was refused because the port is not open
C10_Witness ==
  /\ \E i \in 1..Len(main_log) : main_log[i] = "Failed to send command"
  /\ \E i \in 1..Len(main_log) : main_log[i] = "Serial port not connected"
  /\ exitpath = "interrupt"
  /\ cmdret = "False"

(* ------------------------------- C11 ----------------------------------- *)
\* C11: once a reader thread has left its loop through an exception handler
\* it stays out of the loop, and from then on, in a run of the program, its
\* channel's readline() returns nothing more, no record is added to the
\* channel's file, the channel's attribute is not re-assigned and none of
\* the channel's connection objects becomes open.
C11_ReadErrorFatal ==
  [][ \A t \in Threads :
        Failed(t) =>
          /\ rpc[t] = "exited" /\ rpc'[t] = "exited"
          /\ rexit'[t] = rexit[t]
          /\ received'[t[1]] = received[t[1]]
          /\ sink'[t[1]] = sink[t[1]]
          /\ cur'[t[1]] = cur[t[1]]
          /\ \A g \in Gens :
               conn'[t[1]][g] = "open" => conn[t[1]][g] = "open"
    ]_vars

\* a reader failed after it had logged, while the flag is set and the port
\* is still open: nothing but the break keeps the channel silent
C11_Witness ==
  /\ Failed(<< 1, 1 >>)
  /\ rexit[<< 1, 1 >>] = "SerialException"
  /\ running
  /\ IsOpen(1)
  /\ sink[1] # <<>>
  /\ TotalReads < MaxReads

(* ------------------------------- C12 ----------------------------------- *)
\* C12: whenever the flag is False while a reader thread is inside its loop,
\* that thread eventually leaves the loop (under SpecLive: the thread is
\* scheduled and readline() returns after its timeout).
C12_ShutdownLiveness ==
  \A t \in Threads :
    (~running /\ rpc[t] \in {"while", "if", "call", "readline"})
      ~> (rpc[t] = "exited")

\* the flag was cleared by the interrupt handler while a reader was blocked
\* in readline(), and a reader has since seen it and left through `while`
C12_Witness ==
  /\ ~running
  /\ exitpath = "interrupt"
  /\ rexit[<< 1, 1 >>] = "stopped"
  /\ rpc[<< 1, 1 >>] = "exited"
  /\ robj[<< 1, 1 >>] # 0

(* ------------------------------- C13 ----------------------------------- *)
\* the interrupt handler has begun (or finished) the stop
StopRequested ==
  mpc \in {"disconnect1", "disconnect2"} \/ exitpath = "interrupt"

\* C13: a start call gets past its connect step only with every configured
\* port open; it then holds the flag True from before the first thread is
\* started until a stop is requested; once it is in its loop exactly one
\* reader thread exists per configured channel (one for the antenna and the
\* single logger, two for the dual logger); and no reader thread finds the
\* flag False, at its first test or a later one, unless a stop was requested.
C13_SuccessfulStart ==
  /\ mpc \in {"set_running", "spawn1", "spawn2", "loop"} =>
       \A ch \in ChansOf(variant) : IsOpen(ch)
  /\ mpc \in {"spawn1", "spawn2", "loop"} => running
  /\ mpc = "loop" =>
       /\ \A ch \in Chans, g \in Gens :
            (rpc[<< ch, g >>] # "unborn") <=>
              (ch \in ChansOf(variant) /\ g = starts)
       /\ Cardinality({t \in Threads : rpc[t] # "unborn"}) =
            (IF variant = "dual" THEN 2 ELSE 1)
  /\ \A t \in Threads :
       /\ rpc[t] # "unborn" => (running \/ StopRequested)
       /\ rexit[t] = "stopped" => StopRequested

\* the dual logger is in its loop and both readers are past their first
\* test of the flag, each blocked in its first readline()
C13_Witness ==
  /\ variant = "dual"
  /\ mpc = "loop"
  /\ running
  /\ rpc[<< 1, 1 >>] = "readline"
  /\ rpc[<< 2, 1 >>] = "readline"
  /\ received = [ch \in Chans |-> <<>>]

(* ------------------------------- C14 ----------------------------------- *)
\* C14: whenever the control thread is outside the start and stop steps
\* (before start, after a failed start, in its loop, after the stop), each
\* configured channel has its connection open and its sink file open, or its
\* connection not open and its sink file closed.
C14_NoHalfOpen ==
  mpc \in {"idle", "loop"} =>
    \A ch \in ChansOf(variant) : IsOpen(ch) <=> sinkOpen[ch]

(* ------------------------------- C15 ----------------------------------- *)
\* C15: in the two-channel logger every record in a channel's file is the
\* payload of a line that came in on that channel's own connection, and a
\* step adds a record to a channel's file only when that channel's
\* readline() returned a line in this step, the record being that line's
\* payload, while the other channel's file and received lines stay as they
\* are.
C15_SinkPartitioning ==
  /\ [](variant = "dual" =>
          \A ch \in Chans : \A i \in 1..Len(sink[ch]) :
            \E j \in 1..Len(received[ch]) :
              sink[ch][i] = Trimmed(received[ch][j]))
  /\ [][ variant = "dual" =>
           \A ch \in Chans :
             sink'[ch] # sink[ch] =>
               /\ \E l \in DeviceLines :
                    /\ Delivered(ch, l)
                    /\ sink'[ch] = Append(sink[ch], Trimmed(l))
               /\ received'[Sibling(ch)] = received[Sibling(ch)]
               /\ sink'[Sibling(ch)] = sink[Sibling(ch)]
     ]_vars

\* both readers have logged, each a different line, with both still running
C15_Witness ==
  /\ variant = "dual"
  /\ received[1] = << << 97, 10 >> >>
  /\ received[2] = << << 32, 98, 10 >> >>
  /\ sink[1] = << Trimmed(<< 97, 10 >>) >>
  /\ sink[2] = << Trimmed(<< 32, 98, 10 >>) >>
  /\ sink[1] # sink[2]
  /\ \A ch \in Chans : rpc[<< ch, 1 >>] \notin {"unborn", "exited"}

(* ------------------------------- C16 ----------------------------------- *)
\* C16: the stop clears the flag before it closes anything; a connection is
\* closed by the stop only when no reader thread of its channel is still in
\* its loop; and no reader thread enters readline() on a connection object
\* that is closed.
C16_StopOrdering ==
  [][ /\ \A ch \in Chans :
           (IsOpen(ch) /\ ~IsOpen(ch)' /\ mpc \in {"disconnect1", "disconnect2"}) =>
              /\ ~running
              /\ \A g \in Gens : rpc[<< ch, g >>] \in {"unborn", "exited"}
      /\ \A t \in Threads :
           (rpc[t] = "call" /\ rpc'[t] = "readline") =>
              conn[t[1]][robj'[t]] = "open"
    ]_vars

(* ------------------------------- C17 ----------------------------------- *)
\* the flag is set in this step, by a start call whose ports are all open
StartSetsFlag ==
  /\ mpc = "set_running" /\ mpc' = "spawn1"
  /\ \A ch \in ChansOf(variant) : IsOpen(ch)

\* the flag is cleared in this step by the interrupt handler
InterruptClearsFlag ==
  /\ mpc = "loop" /\ mpc' = "disconnect1"
  /\ main_log' = Append(main_log, "Stopping")

\* a reader thread leaves its loop through an exception handler in this step
Fails(t) == ~Failed(t) /\ Failed(t)'

\* C17 as claimed: the flag goes False -> True only in a start whose ports
\* all opened; it goes True -> False only on the interrupt or on a reader's
\* error; and a reader's error while the flag is True makes it False.
C17_AsClaimed ==
  [][ /\ (~running /\ running') => StartSetsFlag
      /\ (running /\ ~running') =>
           (InterruptClearsFlag \/ \E t \in Threads : Fails(t))
      /\ \A t \in Threads : (Fails(t) /\ running) => ~running'
    ]_vars

\* C17 (amended): the flag goes False -> True only in a start whose ports all
\* opened; it goes True -> False only in the interrupt handler; and a step
\* in which a reader leaves its loop through an exception handler leaves the
\* flag as it is.
C17_RunStateTransitions ==
  [][ /\ (~running /\ running') => StartSetsFlag
      /\ (running /\ ~running') => InterruptClearsFlag
      /\ \A t \in Threads : Fails(t) => running' = running
    ]_vars

\* the single logger's reader has failed and the control thread is still in
\* its loop with the flag True
C17_Witness ==
  /\ variant = "single"
  /\ Failed(<< 1, 1 >>)
  /\ rpc[<< 1, 1 >>] = "exited"
  /\ running
  /\ mpc = "loop"

(* ------------------------------- C18 ----------------------------------- *)
\* the start call has set the flag (it is spawning, in its loop, stopping, or
\* has returned after its loop)
AfterStart ==
  \/ mpc \in {"spawn1", "spawn2", "loop", "disconnect1", "disconnect2"}
  \/ mpc = "idle" /\ exitpath \in {"interrupt", "eof", "loop_end"}

\* C18: every step that changes the flag is a step of the control thread and
\* moves no reader thread; and once the start call has set the flag, the
\* only change the flag undergoes is from True to False, after which it
\* stays False for the rest of the run.
C18_SingleWriter ==
  [][ /\ running' # running =>
           /\ mpc' # mpc
           /\ rpc' = rpc /\ rexit' = rexit /\ robj' = robj /\ count' = count
      /\ (AfterStart /\ running' # running) => (running /\ ~running')
      /\ (AfterStart /\ ~running) => (AfterStart' /\ ~running')
    ]_vars

\* the dual logger was stopped by the control thread and both readers, which
\* only read the flag, saw it and left through their `while` test
C18_Witness ==
  /\ variant = "dual"
  /\ mpc = "idle"
  /\ ~running
  /\ \A ch \in Chans : rexit[<< ch, 1 >>] = "stopped"
  /\ sink[1] # <<>>

(* ------------------------------- C19 ----------------------------------- *)
\* C19: in all three classes, a step in which a reader thread's iteration
\* fails (readline() raises, or the line it returned cannot be decoded) adds
\* the handler's message to the main log and ends that thread's loop, the
\* thread ending as a thread that returned; the step leaves the control
\* thread where it is, the flag, every connection, every other reader thread
\* and every other channel's file and received lines as they are; and a
\* delivered line that is not UTF-8 is such a failure, reported as an
\* unexpected error, with nothing added to the file.
C19_ErrorsStayLocal ==
  [][ \A t \in Threads :
        /\ Fails(t) =>
             /\ main_log' = Append(main_log,
                                   IF rexit'[t] = "SerialException"
                                   THEN "Serial read error"
                                   ELSE "Unexpected error")
             /\ rpc[t] = "readline" /\ rpc'[t] = "exited"
             /\ mpc' = mpc /\ call' = call /\ ret' = ret /\ exitpath' = exitpath
             /\ running' = running
             /\ cur' = cur /\ conn' = conn /\ sinkOpen' = sinkOpen
             /\ sink' = sink /\ printed' = printed /\ sent' = sent
             /\ \A u \in Threads \ {t} :
                  /\ rpc'[u] = rpc[u] /\ rexit'[u] = rexit[u]
                  /\ count'[u] = count[u] /\ robj'[u] = robj[u]
             /\ \A ch \in Chans \ {t[1]} : received'[ch] = received[ch]
        /\ \A l \in DeviceLines :
             (rpc[t] = "readline" /\ rpc'[t] # "readline"
                /\ Delivered(t[1], l) /\ ~IsUtf8(l)) =>
                  /\ Fails(t)
                  /\ rexit'[t] = "Exception"
    ]_vars

\* the antenna controller's reader got a line that is not UTF-8 and ended;
\* the control thread is still in its command loop with the flag True and
\* the port open
C19_Witness ==
  /\ variant = "antenna"
  /\ rexit[<< 1, 1 >>] = "Exception"
  /\ rpc[<< 1, 1 >>] = "exited"
  /\ received[1] # <<>>
  /\ ~IsUtf8(received[1][Len(received[1])])
  /\ mpc = "loop"
  /\ running
  /\ IsOpen(1)
  /\ ncmds < MaxCmds

(* ------------------------------- C20 ----------------------------------- *)
\* how far a reader thread is through the iteration it is in
Rank(pc) ==
  CASE pc = "unborn" -> 0
    [] pc = "if" -> 1
    [] pc = "call" -> 2
    [] pc = "readline" -> 3
    [] pc = "while" -> 4
    [] pc = "exited" -> 5

\* the interrupt handler has cleared the flag
Stopped == AfterStart /\ ~running

\* once the flag is cleared: a channel's file grows only by one record, in a
\* step in which the channel's one reader thread comes back from readline()
\* to its `while` test; and no thread goes back from there (or from any point
\* of the iteration) to an earlier point, so that it records at most once
RecordsAfterStop ==
  Stopped =>
    /\ Stopped'
    /\ \A t \in Threads :
         /\ rpc[t] # "unborn" => t[2] = starts
         /\ Rank(rpc'[t]) >= Rank(rpc[t])
    /\ \A ch \in Chans :
         sink'[ch] # sink[ch] =>
           /\ Len(sink'[ch]) = Len(sink[ch]) + 1
           /\ rpc[<< ch, starts >>] = "readline"
           /\ rpc'[<< ch, starts >>] = "while"

\* C20 as claimed: once the flag is cleared no reader thread enters
\* readline(), and each channel's file gets at most one further record.
C20_AsClaimed ==
  [][ /\ RecordsAfterStop
      /\ Stopped => \A t \in Threads : ~(rpc[t] = "call" /\ rpc'[t] = "readline")
    ]_vars

\* C20 (amended): once the flag is cleared a reader thread begins no new
\* iteration: it only finishes the iteration it was in, which may still
\* enter readline() once if the thread had already passed the test of the
\* flag, and then leaves through the `while` test; so each channel's file
\* gets at most one further record.
C20_NoDrainingAfterStop ==
  [][ /\ RecordsAfterStop
      /\ Stopped =>
           \A t \in Threads :
             /\ rpc[t] = "while" => rpc'[t] \in {"while", "exited"}
             /\ rpc'[t] = "if" => rpc[t] = "if"
             /\ rpc'[t] = "readline" => rpc[t] \in {"call", "readline"}
    ]_vars

\* the flag has been cleared and the port is not yet closed; the single
\* logger's reader, which has logged before, had passed the test of the flag
\* and is about to enter readline(), where a line can still be delivered
C20_Witness ==
  /\ variant = "single"
  /\ ~running
  /\ mpc = "disconnect1"
  /\ IsOpen(1)
  /\ rpc[<< 1, 1 >>] = "call"
  /\ sink[1] # <<>>
  /\ TotalReads < MaxReads

(* ------------------------------- C21 ----------------------------------- *)
\* C21: whenever a start call has returned True (through the interrupt
\* handler, or because the loop ended after input was closed), the flag is
\* False and no configured channel's connection is open.
C21_ExitPerformsStop ==
  (mpc = "idle" /\ ret = "True") =>
    /\ ~running
    /\ \A ch \in ChansOf(variant) : ~IsOpen(ch)

(* ------------------------------- C22 ----------------------------------- *)
\* the reader thread t is in its loop
InLoop(t) == rpc[t] \in {"while", "if", "call", "readline"}

\* how many times the interrupt handler has run (it reports each stop)
Stops == Cardinality({i \in 1..Len(main_log) : main_log[i] = "Stopping"})

\* C22: over start calls repeated on the same object, each after the call
\* before it was ended by the stop, at no time are two reader threads of the
\* same channel in their loops (both would read the channel's connection
\* attribute and record with the channel's logger).
C22_OneReaderPerChannel ==
  Stops >= starts - 1 =>
    \A ch \in Chans : \A g1, g2 \in Gens :
      (InLoop(<< ch, g1 >>) /\ InLoop(<< ch, g2 >>)) => g1 = g2

====
